---- MODULE Spec2Model ----
(***************************************************************************)
(* Mail Guardian backend (server.py): the /analyze request handler and the *)
(* pure functions it is built from.                                        *)
(*                                                                         *)
(* A Python str is modelled as a sequence of one-character strings, so     *)
(* that lower(), the `in` substring test, endswith, split, strip and the   *)
(* regular-expression searches are computed character by character.        *)
(* The response's checked_at field (the wall clock at return) is not       *)
(* modelled; nothing else in the handler reads the clock.                  *)
(***************************************************************************)
EXTENDS Integers, Sequences, FiniteSets, TLC

VARIABLES
    pc,           \* "idle" | "pending" | "done": position of the /analyze request
    data,         \* request.header of the request being served
    result,       \* the dict analyze_email returned (NoResult before it returns)
    sender_line,  \* argument of a direct call of domain_reputation
    verdict,      \* the tuple that call returned (NoVerdict before it returns)
    total,        \* a final score handed to the risk classification
    tier          \* the risk label it produced ("" before it runs)

vars == <<pc, data, result, sender_line, verdict, total, tier>>

(***************************************************************************)
(* Bounds                                                                  *)
(***************************************************************************)
MaxFrags == 3     \* request texts are built from at most this many fragments
MaxDigits == 4    \* longest digit run in a generated sender domain
MaxScore == 120   \* largest score handed to the classifier on its own

(***************************************************************************)
(* Python str primitives                                                   *)
(***************************************************************************)
UpperCase == <<"A","B","C","D","E","F","G","H","I","J","K","L","M","N","O","P","Q","R","S","T","U","V","W","X","Y","Z">>
LowerCase == <<"a","b","c","d","e","f","g","h","i","j","k","l","m","n","o","p","q","r","s","t","u","v","w","x","y","z">>
Digits == {"0", "1", "2", "3", "4", "5", "6", "7", "8", "9"}
Whitespace == {" ", "\t", "\n", "\r"}

Range(f) == {f[i] : i \in DOMAIN f}
SetMin(S) == CHOOSE x \in S : \A y \in S : x <= y
SetMax(S) == CHOOSE x \in S : \A y \in S : x >= y

\* the lower-case letter of each upper-case letter
LowerOf == [c \in Range(UpperCase) |-> LowerCase[CHOOSE i \in 1..26 : UpperCase[i] = c]]

UpperLetters == Range(UpperCase)

lower_char(c) == IF c \in UpperLetters THEN LowerOf[c] ELSE c

\* str.lower()
lower(s) == SubSeq([i \in 1..Len(s) |-> lower_char(s[i])], 1, Len(s))

\* positions at which sub occurs in s
occurrences(sub, s) ==
    {i \in 1..(Len(s) - Len(sub) + 1) : \A k \in 1..Len(sub) : s[i + k - 1] = sub[k]}

\* sub in s
contains(sub, s) == occurrences(sub, s) # {}

\* s.endswith(suffix)
endswith(s, suffix) ==
    /\ Len(s) >= Len(suffix)
    /\ SubSeq(s, Len(s) - Len(suffix) + 1, Len(s)) = suffix

\* s.strip()
strip(s) ==
    LET keep == {i \in 1..Len(s) : s[i] \notin Whitespace}
    IN IF keep = {} THEN <<>> ELSE SubSeq(s, SetMin(keep), SetMax(keep))

\* s.split("@")[-1]
after_last_at(s) ==
    LET ats == {i \in 1..Len(s) : s[i] = "@"}
    IN IF ats = {} THEN s ELSE SubSeq(s, SetMax(ats) + 1, Len(s))

(***************************************************************************)
(* BASIC FIELD EXTRACT                                                     *)
(***************************************************************************)
NA == <<"N","/","A">>

\* extract(label + "(.*)", text): re.search with re.IGNORECASE finds the
\* leftmost occurrence of the label, group 1 runs to the end of that line
\* ('.' does not match a newline), and the group is stripped.
extract(label, text) ==
    LET hits == occurrences(lower(label), lower(text))
    IN IF hits = {} THEN NA
       ELSE LET from == SetMin(hits) + Len(label)
                nls == {k \in from..Len(text) : text[k] = "\n"}
                to == IF nls = {} THEN Len(text) ELSE SetMin(nls) - 1
            IN strip(SubSeq(text, from, to))

(***************************************************************************)
(* DOMAIN REPUTATION                                                       *)
(***************************************************************************)
TRUSTED_TLDS == <<<<".","g","o","v">>, <<".","e","d","u">>>>
COMMON_MAIL_PROVIDERS == <<<<"g","m","a","i","l",".","c","o","m">>, <<"o","u","t","l","o","o","k",".","c","o","m">>, <<"y","a","h","o","o",".","c","o","m">>, <<"i","c","l","o","u","d",".","c","o","m">>>>
KNOWN_BRANDS == <<<<"s","b","i">>, <<"p","a","y","p","a","l">>, <<"a","m","a","z","o","n">>, <<"g","o","o","g","l","e">>, <<"m","i","c","r","o","s","o","f","t">>, <<"a","p","p","l","e">>>>

\* re.search(r"<(.+?)>", s): the positions <<i, j>> of the '<' and the '>' of
\* the leftmost match, with at least one character and no newline between.
bracket_matches(s) ==
    {ij \in (1..Len(s)) \X (1..Len(s)) :
        /\ s[ij[1]] = "<"
        /\ ij[2] >= ij[1] + 2
        /\ s[ij[2]] = ">"
        /\ \A k \in (ij[1] + 1)..(ij[2] - 1) : s[k] # "\n"}

\* match.group(1) of that search: leftmost '<', then the shortest group
bracket_group(s) ==
    LET ms == bracket_matches(s)
        i == SetMin({ij[1] : ij \in ms})
        j == SetMin({ij[2] : ij \in {m \in ms : m[1] = i}})
    IN SubSeq(s, i + 1, j - 1)

\* re.search(r"\d{3,}|-|secure|login|verify", domain)
phishing_style(domain) ==
    \/ \E i \in 1..(Len(domain) - 2) :
          domain[i] \in Digits /\ domain[i + 1] \in Digits /\ domain[i + 2] \in Digits
    \/ contains(<<"-">>, domain)
    \/ contains(<<"s","e","c","u","r","e">>, domain)
    \/ contains(<<"l","o","g","i","n">>, domain)
    \/ contains(<<"v","e","r","i","f","y">>, domain)

\* the brands of KNOWN_BRANDS, in list order, found in the line but not in the domain
mismatched_brands(name_part, domain) ==
    SelectSeq(KNOWN_BRANDS, LAMBDA brand : contains(brand, name_part) /\ ~contains(brand, domain))

\* as domain_reputation, with the brand comparison made before the allow-lists
domain_reputation_brand_first(line) ==
    IF bracket_matches(line) = {}
    THEN <<<<"U","n","k","n","o","w","n">>, <<"C","o","u","l","d"," ","n","o","t"," ","e","x","t","r","a","c","t"," ","s","e","n","d","e","r"," ","d","o","m","a","i","n">>>>
    ELSE LET email == lower(bracket_group(line))
             domain == after_last_at(email)
             name_part == lower(line)
             bad == mismatched_brands(name_part, domain)
         IN IF bad # <<>>
            THEN <<<<"S","u","s","p","i","c","i","o","u","s">>, <<"B","r","a","n","d"," ","n","a","m","e"," ","'">> \o bad[1] \o <<"'"," ","d","o","e","s"," ","n","o","t"," ","m","a","t","c","h"," ","d","o","m","a","i","n">>>>
            ELSE IF \E t \in 1..Len(TRUSTED_TLDS) : endswith(domain, TRUSTED_TLDS[t])
            THEN <<<<"T","r","u","s","t","e","d">>, <<"O","f","f","i","c","i","a","l"," ","o","r","g","a","n","i","z","a","t","i","o","n"," ","d","o","m","a","i","n">>>>
            ELSE IF domain \in Range(COMMON_MAIL_PROVIDERS)
            THEN <<<<"N","e","u","t","r","a","l">>, <<"P","u","b","l","i","c"," ","e","m","a","i","l"," ","p","r","o","v","i","d","e","r">>>>
            ELSE IF phishing_style(domain)
            THEN <<<<"S","u","s","p","i","c","i","o","u","s">>, <<"D","o","m","a","i","n"," ","l","o","o","k","s"," ","a","u","t","o","-","g","e","n","e","r","a","t","e","d"," ","o","r"," ","p","h","i","s","h","i","n","g","-","s","t","y","l","e">>>>
            ELSE <<<<"U","n","k","n","o","w","n">>, <<"N","o"," ","s","t","r","o","n","g"," ","i","n","d","i","c","a","t","o","r","s">>>>

domain_reputation(line) ==
    IF bracket_matches(line) = {}
    THEN <<<<"U","n","k","n","o","w","n">>, <<"C","o","u","l","d"," ","n","o","t"," ","e","x","t","r","a","c","t"," ","s","e","n","d","e","r"," ","d","o","m","a","i","n">>>>
    ELSE LET email == lower(bracket_group(line))
             domain == after_last_at(email)
             name_part == lower(line)
             bad == mismatched_brands(name_part, domain)
         IN IF \E t \in 1..Len(TRUSTED_TLDS) : endswith(domain, TRUSTED_TLDS[t])
            THEN <<<<"T","r","u","s","t","e","d">>, <<"O","f","f","i","c","i","a","l"," ","o","r","g","a","n","i","z","a","t","i","o","n"," ","d","o","m","a","i","n">>>>
            ELSE IF domain \in Range(COMMON_MAIL_PROVIDERS)
            THEN <<<<"N","e","u","t","r","a","l">>, <<"P","u","b","l","i","c"," ","e","m","a","i","l"," ","p","r","o","v","i","d","e","r">>>>
            ELSE IF bad # <<>>
            THEN <<<<"S","u","s","p","i","c","i","o","u","s">>, <<"B","r","a","n","d"," ","n","a","m","e"," ","'">> \o bad[1] \o <<"'"," ","d","o","e","s"," ","n","o","t"," ","m","a","t","c","h"," ","d","o","m","a","i","n">>>>
            ELSE IF phishing_style(domain)
            THEN <<<<"S","u","s","p","i","c","i","o","u","s">>, <<"D","o","m","a","i","n"," ","l","o","o","k","s"," ","a","u","t","o","-","g","e","n","e","r","a","t","e","d"," ","o","r"," ","p","h","i","s","h","i","n","g","-","s","t","y","l","e">>>>
            ELSE <<<<"U","n","k","n","o","w","n">>, <<"N","o"," ","s","t","r","o","n","g"," ","i","n","d","i","c","a","t","o","r","s">>>>

(***************************************************************************)
(* HEADER PHISHING CHECK                                                   *)
(***************************************************************************)
AUTH_FAIL_WEIGHT == 40
NO_ROUTING_WEIGHT == 20
AuthReason == <<"E","m","a","i","l"," ","a","u","t","h","e","n","t","i","c","a","t","i","o","n"," ","f","a","i","l","e","d"," ","(","S","P","F","/","D","K","I","M","/","D","M","A","R","C",")">>
RoutingReason == <<"H","e","a","d","e","r"," ","r","o","u","t","i","n","g"," ","i","n","f","o","r","m","a","t","i","o","n"," ","m","i","s","s","i","n","g">>

\* as header_phishing, with one weight and one reason per failed mechanism
header_phishing_per_marker(header) ==
    LET h == lower(header)
        failed == SelectSeq(<<<<"s","p","f","=","f","a","i","l">>, <<"d","k","i","m","=","f","a","i","l">>, <<"d","m","a","r","c","=","f","a","i","l">>>>, LAMBDA m : contains(m, h))
        s1 == AUTH_FAIL_WEIGHT * Len(failed)
        r1 == [i \in 1..Len(failed) |-> AuthReason]
        norouting == ~contains(<<"r","e","c","e","i","v","e","d",":">>, h)
        s2 == IF norouting THEN s1 + NO_ROUTING_WEIGHT ELSE s1
        r2 == IF norouting THEN Append(r1, RoutingReason) ELSE r1
    IN <<s2, r2>>

\* as header_phishing, with the routing test inverted ("received:" in h)
header_phishing_inverted_routing(header) ==
    LET h == lower(header)
        auth == contains(<<"s","p","f","=","f","a","i","l">>, h) \/ contains(<<"d","k","i","m","=","f","a","i","l">>, h) \/ contains(<<"d","m","a","r","c","=","f","a","i","l">>, h)
        s1 == IF auth THEN AUTH_FAIL_WEIGHT ELSE 0
        r1 == IF auth THEN <<AuthReason>> ELSE <<>>
        routing == contains(<<"r","e","c","e","i","v","e","d",":">>, h)
        s2 == IF routing THEN s1 + NO_ROUTING_WEIGHT ELSE s1
        r2 == IF routing THEN Append(r1, RoutingReason) ELSE r1
    IN <<s2, r2>>

\* as header_phishing, with the routing check chained by elif
header_phishing_elif(header) ==
    LET h == lower(header)
        auth == contains(<<"s","p","f","=","f","a","i","l">>, h) \/ contains(<<"d","k","i","m","=","f","a","i","l">>, h) \/ contains(<<"d","m","a","r","c","=","f","a","i","l">>, h)
        norouting == ~contains(<<"r","e","c","e","i","v","e","d",":">>, h)
    IN IF auth THEN <<AUTH_FAIL_WEIGHT, <<AuthReason>>>>
       ELSE IF norouting THEN <<NO_ROUTING_WEIGHT, <<RoutingReason>>>>
       ELSE <<0, <<>>>>

\* returns <<score, reasons>>
header_phishing(header) ==
    LET h == lower(header)
        auth == contains(<<"s","p","f","=","f","a","i","l">>, h) \/ contains(<<"d","k","i","m","=","f","a","i","l">>, h) \/ contains(<<"d","m","a","r","c","=","f","a","i","l">>, h)
        s1 == IF auth THEN AUTH_FAIL_WEIGHT ELSE 0
        r1 == IF auth THEN <<AuthReason>> ELSE <<>>
        norouting == ~contains(<<"r","e","c","e","i","v","e","d",":">>, h)
        s2 == IF norouting THEN s1 + NO_ROUTING_WEIGHT ELSE s1
        r2 == IF norouting THEN Append(r1, RoutingReason) ELSE r1
    IN <<s2, r2>>

(***************************************************************************)
(* TEXT SCAM DETECTION (SCREENSHOT SUPPORT)                                *)
(***************************************************************************)
words == <<<<"u","r","g","e","n","t">>, <<"v","e","r","i","f","y">>, <<"s","u","s","p","e","n","d">>, <<"c","l","i","c","k">>, <<"r","e","w","a","r","d">>,
           <<"l","o","t","t","e","r","y">>, <<"w","i","n","n","e","r">>, <<"b","a","n","k">>, <<"b","l","o","c","k","e","d">>,
           <<"u","p","d","a","t","e"," ","k","y","c">>, <<"p","a","s","s","w","o","r","d">>, <<"o","t","p">>, <<"l","i","m","i","t","e","d"," ","t","i","m","e">>>>
WORD_WEIGHT == 10
LINK_WEIGHT == 20
PhraseReason(w) == <<"S","u","s","p","i","c","i","o","u","s"," ","p","h","r","a","s","e",":"," ">> \o w
LinkReason == <<"U","n","s","e","c","u","r","e","d"," ","l","i","n","k"," ","d","e","t","e","c","t","e","d">>

\* as scan_words, with score -= 10 in the loop body
RECURSIVE scan_words_subtracting(_, _, _, _)
scan_words_subtracting(text, i, score, reasons) ==
    IF i > Len(words) THEN <<score, reasons>>
    ELSE IF contains(words[i], lower(text))
         THEN scan_words_subtracting(text, i + 1, score - WORD_WEIGHT,
                                     Append(reasons, PhraseReason(words[i])))
         ELSE scan_words_subtracting(text, i + 1, score, reasons)

\* the for loop over words, from index i on, with the accumulators so far
RECURSIVE scan_words(_, _, _, _)
scan_words(text, i, score, reasons) ==
    IF i > Len(words) THEN <<score, reasons>>
    ELSE IF contains(words[i], lower(text))
         THEN scan_words(text, i + 1, score + WORD_WEIGHT, Append(reasons, PhraseReason(words[i])))
         ELSE scan_words(text, i + 1, score, reasons)

\* as text_scam_detection, with the link rule applied to every occurrence
text_scam_detection_per_link(text) ==
    LET afterWords == scan_words(text, 1, 0, <<>>)
        n == Cardinality(occurrences(<<"h","t","t","p",":","/","/">>, lower(text)))
    IN <<afterWords[1] + LINK_WEIGHT * n, afterWords[2] \o [i \in 1..n |-> LinkReason]>>

\* returns <<score, reasons>>
text_scam_detection(text) ==
    LET afterWords == scan_words(text, 1, 0, <<>>)
    IN IF contains(<<"h","t","t","p",":","/","/">>, lower(text))
       THEN <<afterWords[1] + LINK_WEIGHT, Append(afterWords[2], LinkReason)>>
       ELSE afterWords

(***************************************************************************)
(* MAIN ANALYSIS                                                           *)
(***************************************************************************)
HIGH_THRESHOLD == 70
MEDIUM_THRESHOLD == 35
FallbackReason == <<"N","o"," ","s","u","s","p","i","c","i","o","u","s"," ","i","n","d","i","c","a","t","o","r","s"," ","f","o","u","n","d">>

\* as risk_of, with > for >=
risk_of_strict(score) ==
    IF score > HIGH_THRESHOLD THEN <<"H","i","g","h">>
    ELSE IF score > MEDIUM_THRESHOLD THEN <<"M","e","d","i","u","m">>
    ELSE <<"L","o","w">>

\* the if / elif / else on the final score
risk_of(score) ==
    IF score >= HIGH_THRESHOLD THEN <<"H","i","g","h">>
    ELSE IF score >= MEDIUM_THRESHOLD THEN <<"M","e","d","i","u","m">>
    ELSE <<"L","o","w">>

\* as is_header, without the "subject:" alternative
is_header_received_only(text) == contains(<<"r","e","c","e","i","v","e","d",":">>, lower(text))

\* "received:" in data.lower() or "subject:" in data.lower()
is_header(text) ==
    contains(<<"r","e","c","e","i","v","e","d",":">>, lower(text)) \/ contains(<<"s","u","b","j","e","c","t",":">>, lower(text))

\* as final_reasons, without the fallback
final_reasons_unchanged(reasons) == reasons

\* the fallback: if not reasons: reasons.append(...)
final_reasons(reasons) ==
    IF reasons = <<>> THEN <<FallbackReason>> ELSE reasons

analyze_email(text) ==
    LET hdr == is_header(text)
        h == IF hdr THEN header_phishing(text) ELSE <<0, <<>>>>
        rep == IF hdr THEN domain_reputation(extract(<<"F","r","o","m",":">>, text))
                      ELSE <<<<"U","n","k","n","o","w","n">>, <<"D","e","t","e","c","t","e","d"," ","f","r","o","m"," ","s","c","r","e","e","n","s","h","o","t"," ","m","e","s","s","a","g","e">>>>
        t == text_scam_detection(text)
        score == h[1] + t[1]
        reasons == h[2] \o t[2]
    IN [subject |-> IF hdr THEN extract(<<"S","u","b","j","e","c","t",":">>, text) ELSE <<"S","c","r","e","e","n","s","h","o","t"," ","T","e","x","t">>,
        from |-> IF hdr THEN extract(<<"F","r","o","m",":">>, text) ELSE <<"U","n","k","n","o","w","n">>,
        to |-> IF hdr THEN extract(<<"T","o",":">>, text) ELSE <<"U","s","e","r">>,
        date |-> IF hdr THEN extract(<<"D","a","t","e",":">>, text) ELSE <<"N","/","A">>,
        risk |-> risk_of(score),
        score |-> score,
        reasons |-> final_reasons(reasons),
        domain_reputation |-> rep[1],
        domain_note |-> rep[2]]

(***************************************************************************)
(* Inputs                                                                  *)
(***************************************************************************)
\* pieces a request text is assembled from
Fragments ==
    {<<"R","e","c","e","i","v","e","d",":">>, <<"S","U","B","J","E","C","T",":">>, <<"F","r","o","m",":"," ","P","a","y"," ","<","a","@","b","-","c",".","c","o","m",">","\n">>,
     <<"s","p","f","=","f","a","i","l">>, <<"D","K","I","M","=","F","a","i","l">>, <<"d","m","a","r","c","=","f","a","i","l">>,
     <<"h","t","t","p",":","/","/">>, <<"b","i","t",".","l","y">>, <<"V","e","r","i","f","y">>, <<" ","h","e","l","l","o","\n">>}

RECURSIVE TextsUpTo(_)
TextsUpTo(n) ==
    IF n = 0 THEN {<<>>}
    ELSE LET shorter == TextsUpTo(n - 1)
         IN shorter \cup {t \o f : t \in shorter, f \in Fragments}

EndToEndHeader ==
    <<"S","u","b","j","e","c","t",":"," ","V","e","r","i","f","y"," ","y","o","u","r"," ","a","c","c","o","u","n","t","\n","F","r","o","m",":"," ","S","e","c","u","r","i","t","y"," ","<","s","e","c","u","r","i","t","y","@","p","a","y","p","a","l","-","v","e","r","i","f","y","-","l","o","g","i","n",".","c","o","m",">","\n","s","p","f","=","f","a","i","l">>

SampleTexts ==
    {EndToEndHeader,
     <<"R","e","c","e","i","v","e","d",":"," ","f","r","o","m"," ","m","x","\n","S","u","b","j","e","c","t",":"," ","W","i","n"," ","a"," ","p","r","i","z","e","!","\n","F","r","o","m",":"," ","J","a","n","e"," ","<","j","a","n","e","@","g","m","a","i","l",".","c","o","m",">","\n","T","o",":"," ","m","e","@","x",".","o","r","g","\n","D","a","t","e",":"," ","M","o","n">>,
     <<"u","r","g","e","n","t",":"," ","c","l","i","c","k"," ","t","i","n","y","u","r","l",".","c","o","m","/","x"," ","t","o"," ","u","p","d","a","t","e"," ","k","y","c",","," ","y","o","u","r"," ","b","a","n","k"," ","p","a","s","s","w","o","r","d"," ","i","s"," ","b","l","o","c","k","e","d">>,
     <<"L","o","t","t","e","r","y"," ","W","I","N","N","E","R","!"," ","l","i","m","i","t","e","d"," ","t","i","m","e"," ","r","e","w","a","r","d",","," ","s","u","s","p","e","n","d"," ","o","t","p"," ","h","t","t","p",":","/","/","a"," ","h","t","t","p",":","/","/","b"," ","v","e","r","i","f","y">>,
     <<"s","e","e"," ","y","o","u"," ","a","t"," ","n","o","o","n">>}

Requests == TextsUpTo(MaxFrags) \cup SampleTexts

Displays == {<<>>, <<"A","d","m","i","n"," ">>, <<"P","a","y","P","a","l"," ","S","u","p","p","o","r","t"," ">>, <<"X"," ">>, <<"S","B","I"," ","A","p","p","l","e"," ">>, <<"J","a","n","e"," ">>}

RECURSIVE DigitRun(_)
DigitRun(n) == IF n = 0 THEN <<>> ELSE Append(DigitRun(n - 1), "7")

SenderDomains ==
    {<<"a","g","e","n","c","y",".","g","o","v">>, <<"u","n","i",".","e","d","u">>, <<"g","m","a","i","l",".","c","o","m">>, <<"G","M","a","i","l",".","C","o","m">>, <<"m","y","g","m","a","i","l",".","c","o","m">>, <<"p","a","y","p","a","l",".","c","o","m">>,
     <<"p","a","y","p","a","1","-","s","e","c","u","r","e",".","c","o","m">>, <<"p","a","y","p","a","l",".","g","o","v">>, <<"a","p","p","l","e",".","e","d","u",".","c","o">>, <<"e","x","a","m","p","l","e",".","c","o","m">>, <<"m","a","i","l",".","l","o","g","i","n",".","n","e","t">>,
     <<"n","o","t","-","a","n","-","e","m","a","i","l">>, <<"v","e","r","i","f","y",".","o","r","g">>}
    \cup {<<"x">> \o DigitRun(n) \o <<".","c","o","m">> : n \in 0..MaxDigits}

\* sender lines: bracketed address, bare address, bracketed text without '@',
\* an address with two '@', and a line with no address at all
SenderLines ==
    {d \o <<"<","u","s","e","r","@">> \o dom \o <<">">> : d \in Displays, dom \in SenderDomains}
    \cup {d \o <<"u","s","e","r","@">> \o dom : d \in Displays, dom \in SenderDomains}
    \cup {d \o <<"<">> \o dom \o <<">">> : d \in Displays, dom \in SenderDomains}
    \cup {d \o <<"<","a","@","b",".","g","o","v","@">> \o dom \o <<">">> : d \in Displays, dom \in SenderDomains}
    \cup Displays

(***************************************************************************)
(* The /analyze endpoint                                                   *)
(***************************************************************************)
NoResult == [score |-> -1]
NoVerdict == <<>>

Init ==
    /\ pc = "idle"
    /\ data = <<>>
    /\ result = NoResult
    /\ sender_line = <<>>
    /\ verdict = NoVerdict
    /\ total = 0
    /\ tier = <<>>

\* a client posts {"header": d} while no request is being served
Post ==
    /\ pc = "idle"
    /\ \E d \in Requests : data' = d
    /\ pc' = "pending"
    /\ UNCHANGED <<result, sender_line, verdict, total, tier>>

\* the handler runs to its return statement
Analyze ==
    /\ pc = "pending"
    /\ result' = analyze_email(data)
    /\ pc' = "done"
    /\ UNCHANGED <<data, sender_line, verdict, total, tier>>

\* the response is sent; the server keeps nothing of the request
Respond ==
    /\ pc = "done"
    /\ pc' = "idle"
    /\ data' = <<>>
    /\ result' = NoResult
    /\ UNCHANGED <<sender_line, verdict, total, tier>>

Next ==
    \/ Post
    \/ Analyze
    \/ Respond

Spec == Init /\ [][Next]_vars

(***************************************************************************)
(* domain_reputation called on its own                                     *)
(***************************************************************************)
InitRep ==
    /\ pc = "idle"
    /\ data = <<>>
    /\ result = NoResult
    /\ sender_line \in SenderLines
    /\ verdict = NoVerdict
    /\ total = 0
    /\ tier = <<>>

Reputation ==
    /\ verdict = NoVerdict
    /\ verdict' = domain_reputation(sender_line)
    /\ UNCHANGED <<pc, data, result, sender_line, total, tier>>

NextRep == Reputation

SpecRep == InitRep /\ [][NextRep]_vars

(***************************************************************************)
(* the risk classification applied to every score                          *)
(***************************************************************************)
InitRisk ==
    /\ pc = "idle"
    /\ data = <<>>
    /\ result = NoResult
    /\ sender_line = <<>>
    /\ verdict = NoVerdict
    /\ total \in 0..MaxScore
    /\ tier = <<>>

Classify ==
    /\ tier = <<>>
    /\ tier' = risk_of(total)
    /\ UNCHANGED <<pc, data, result, sender_line, verdict, total>>

NextRisk == Classify

SpecRisk == InitRisk /\ [][NextRisk]_vars

(***************************************************************************)
(* Properties                                                              *)
(***************************************************************************)
\* number of entries of seq equal to x
Count(x, seq) == Cardinality({i \in DOMAIN seq : seq[i] = x})

\* The predicates below take the lowercased request text t.
\* the keywords of the list that occur in t
FoundWords(t) == {i \in 1..13 : contains(words[i], t)}

HasReceived(t) == contains(<<"r","e","c","e","i","v","e","d",":">>, t)
HasSubject(t) == contains(<<"s","u","b","j","e","c","t",":">>, t)
HeaderMode(t) == HasReceived(t) \/ HasSubject(t)
HasHttp(t) == contains(<<"h","t","t","p",":","/","/">>, t)
HasSpfOrDkim(t) == contains(<<"s","p","f","=","f","a","i","l">>, t) \/ contains(<<"d","k","i","m","=","f","a","i","l">>, t)
HasAuthMarker(t) == HasSpfOrDkim(t) \/ contains(<<"d","m","a","r","c","=","f","a","i","l">>, t)
HasLinkMarker(t) == HasHttp(t) \/ contains(<<"b","i","t",".","l","y">>, t) \/ contains(<<"t","i","n","y","u","r","l">>, t)

\* contributions of the individual rules, read off t
KeywordPoints(t) == 10 * Cardinality(FoundWords(t))
HttpPoints(t) == IF HasHttp(t) THEN 20 ELSE 0
AuthPoints(t) == IF HeaderMode(t) /\ HasAuthMarker(t) THEN 40 ELSE 0
RoutingPoints(t) == IF HeaderMode(t) /\ ~HasReceived(t) THEN 20 ELSE 0

\* C1: the reasons list of every result is non-empty; with score 0 it is
\* exactly the single fallback reason, and with a non-zero score the
\* fallback reason does not occur in it.
C1_ReasonsNeverEmpty ==
    pc = "done" =>
        /\ result.reasons # <<>>
        /\ result.score = 0 => result.reasons = <<<<"N","o"," ","s","u","s","p","i","c","i","o","u","s"," ","i","n","d","i","c","a","t","o","r","s"," ","f","o","u","n","d">>>>
        /\ result.score # 0 => Count(<<"N","o"," ","s","u","s","p","i","c","i","o","u","s"," ","i","n","d","i","c","a","t","o","r","s"," ","f","o","u","n","d">>, result.reasons) = 0

\* a header on which no rule fired got the fallback reason
C1_Witness ==
    LET t == lower(data) IN
    /\ pc = "done"
    /\ HasReceived(t)
    /\ result.score = 0
    /\ result.reasons = <<<<"N","o"," ","s","u","s","p","i","c","i","o","u","s"," ","i","n","d","i","c","a","t","o","r","s"," ","f","o","u","n","d">>>>

\* C2: the tier is High exactly for scores >= 70, Medium exactly for scores
\* from 35 to 69 and Low exactly for scores below 35; 70 is High, 69 and 35
\* are Medium, 34 is Low.
C2_RiskThresholds ==
    tier # <<>> =>
        /\ (tier = <<"H","i","g","h">>) <=> (total >= 70)
        /\ (tier = <<"M","e","d","i","u","m">>) <=> (total >= 35 /\ total < 70)
        /\ (tier = <<"L","o","w">>) <=> (total < 35)
        /\ total = 70 => tier = <<"H","i","g","h">>
        /\ total = 69 => tier = <<"M","e","d","i","u","m">>
        /\ total = 35 => tier = <<"M","e","d","i","u","m">>
        /\ total = 34 => tier = <<"L","o","w">>

\* the boundary score 70 was classified
C2_Witness == total = 70 /\ tier = <<"H","i","g","h">>

\* C3 as stated: the score is the sum of the keyword weights, the
\* authentication-failure weight and the insecure-link weight of the content
\* rules the text triggers, and nothing else contributes.
C3_Original ==
    LET t == lower(data) IN
    pc = "done" =>
        result.score = KeywordPoints(t)
                       + (IF HasAuthMarker(t) THEN 40 ELSE 0)
                       + (IF HasLinkMarker(t) THEN 20 ELSE 0)

\* C3 amended: the score is 10 per distinct keyword found, plus 20 when
\* "http://" occurs, plus, in header mode only, 40 when an authentication
\* failure marker occurs and 20 when "received:" does not occur; there is no
\* cap and no other contribution.
C3_ScoreIsSumOfRules ==
    LET t == lower(data) IN
    pc = "done" =>
        result.score = KeywordPoints(t) + HttpPoints(t)
                       + AuthPoints(t) + RoutingPoints(t)

\* a header lacking routing information in which a keyword occurs twice and
\* the authentication rule fired
C3_Witness ==
    LET t == lower(data) IN
    /\ pc = "done"
    /\ HasSubject(t) /\ ~HasReceived(t)
    /\ HasAuthMarker(t)
    /\ Cardinality(occurrences(<<"v","e","r","i","f","y">>, t)) >= 2
    /\ result.score = 70

\* C4: the end-to-end header of the specification is rated High, its
\* reasons contain the authentication-failure reason and the keyword reason
\* for "verify", and its sender domain is Suspicious.
C4_EndToEnd ==
    (pc = "done" /\ data = EndToEndHeader) =>
        /\ result.risk = <<"H","i","g","h">>
        /\ Count(<<"E","m","a","i","l"," ","a","u","t","h","e","n","t","i","c","a","t","i","o","n"," ","f","a","i","l","e","d"," ","(","S","P","F","/","D","K","I","M","/","D","M","A","R","C",")">>, result.reasons) = 1
        /\ Count(<<"S","u","s","p","i","c","i","o","u","s"," ","p","h","r","a","s","e",":"," ","v","e","r","i","f","y">>, result.reasons) = 1
        /\ result.domain_reputation = <<"S","u","s","p","i","c","i","o","u","s">>

\* the end-to-end header was analysed
C4_Witness ==
    /\ pc = "done"
    /\ data = EndToEndHeader
    /\ result.from = <<"S","e","c","u","r","i","t","y"," ","<","s","e","c","u","r","i","t","y","@","p","a","y","p","a","l","-","v","e","r","i","f","y","-","l","o","g","i","n",".","c","o","m",">">>
    /\ result.score = 70

\* C5: domain_reputation returns the first verdict that applies, in the
\* order: no bracketed address, trusted suffix, public provider, brand
\* mismatch (naming the first mismatched brand of the list), phishing-style
\* domain, none.
C5_Precedence ==
    verdict # NoVerdict =>
        LET has == bracket_matches(sender_line) # {}
            dom == after_last_at(lower(bracket_group(sender_line)))
            trusted == endswith(dom, <<".","g","o","v">>) \/ endswith(dom, <<".","e","d","u">>)
            neutral == dom \in {<<"g","m","a","i","l",".","c","o","m">>, <<"o","u","t","l","o","o","k",".","c","o","m">>, <<"y","a","h","o","o",".","c","o","m">>, <<"i","c","l","o","u","d",".","c","o","m">>}
            mis == SelectSeq(<<<<"s","b","i">>, <<"p","a","y","p","a","l">>, <<"a","m","a","z","o","n">>, <<"g","o","o","g","l","e">>, <<"m","i","c","r","o","s","o","f","t">>, <<"a","p","p","l","e">>>>,
                             LAMBDA b : contains(b, lower(sender_line)) /\ ~contains(b, dom))
            style == \/ \E i \in 1..(Len(dom) - 2) : {dom[i], dom[i + 1], dom[i + 2]} \subseteq Digits
                     \/ \E i \in 1..Len(dom) : dom[i] = "-"
                     \/ contains(<<"s","e","c","u","r","e">>, dom) \/ contains(<<"l","o","g","i","n">>, dom) \/ contains(<<"v","e","r","i","f","y">>, dom)
        IN /\ ~has => verdict[1] = <<"U","n","k","n","o","w","n">>
           /\ (has /\ trusted) => verdict[1] = <<"T","r","u","s","t","e","d">>
           /\ (has /\ ~trusted /\ neutral) => verdict[1] = <<"N","e","u","t","r","a","l">>
           /\ (has /\ ~trusted /\ ~neutral /\ mis # <<>>) =>
                 /\ verdict[1] = <<"S","u","s","p","i","c","i","o","u","s">>
                 /\ contains(<<"'">> \o mis[1] \o <<"'">>, verdict[2])
                 /\ \A k \in 2..Len(mis) : ~contains(<<"'">> \o mis[k] \o <<"'">>, verdict[2])
           /\ (has /\ ~trusted /\ ~neutral /\ mis = <<>> /\ style) => verdict[1] = <<"S","u","s","p","i","c","i","o","u","s">>
           /\ (has /\ ~trusted /\ ~neutral /\ mis = <<>> /\ ~style) => verdict[1] = <<"U","n","k","n","o","w","n">>

\* a trusted suffix won although two brands of the line are missing from the
\* domain
C5_Witness ==
    /\ verdict # NoVerdict
    /\ sender_line = <<"S","B","I"," ","A","p","p","l","e"," ","<","u","s","e","r","@","p","a","y","p","a","l",".","g","o","v",">">>
    /\ verdict[1] = <<"T","r","u","s","t","e","d">>

\* C6 as stated: the sender line "X <not-an-email>" yields Unknown with the
\* note "Could not extract sender domain".
C6_UnparseableIsUnknown ==
    (verdict # NoVerdict /\ sender_line = <<"X"," ","<","n","o","t","-","a","n","-","e","m","a","i","l",">">>) =>
        verdict = <<<<"U","n","k","n","o","w","n">>, <<"C","o","u","l","d"," ","n","o","t"," ","e","x","t","r","a","c","t"," ","s","e","n","d","e","r"," ","d","o","m","a","i","n">>>>

\* C7 as stated: in either mode, a text containing "spf=fail" or "dkim=fail"
\* gets the authentication-failure weight once and one authentication-failure
\* reason.
C7_Original ==
    LET t == lower(data) IN
    (pc = "done" /\ HasSpfOrDkim(t)) =>
        /\ result.score = 40 + KeywordPoints(t) + HttpPoints(t) + RoutingPoints(t)
        /\ Count(<<"E","m","a","i","l"," ","a","u","t","h","e","n","t","i","c","a","t","i","o","n"," ","f","a","i","l","e","d"," ","(","S","P","F","/","D","K","I","M","/","D","M","A","R","C",")">>, result.reasons) = 1

\* C7 amended: in header mode, a text containing "spf=fail" or "dkim=fail"
\* gets the authentication-failure weight once and one authentication-failure
\* reason, however many markers it has; in plain-text mode the rule is not
\* evaluated: no weight and no such reason.
C7_AuthFailureOnceInHeaderMode ==
    LET t == lower(data) IN
    (pc = "done" /\ HasSpfOrDkim(t)) =>
        IF HeaderMode(t)
        THEN /\ result.score = 40 + KeywordPoints(t) + HttpPoints(t) + RoutingPoints(t)
             /\ Count(<<"E","m","a","i","l"," ","a","u","t","h","e","n","t","i","c","a","t","i","o","n"," ","f","a","i","l","e","d"," ","(","S","P","F","/","D","K","I","M","/","D","M","A","R","C",")">>, result.reasons) = 1
        ELSE /\ result.score = KeywordPoints(t) + HttpPoints(t)
             /\ Count(<<"E","m","a","i","l"," ","a","u","t","h","e","n","t","i","c","a","t","i","o","n"," ","f","a","i","l","e","d"," ","(","S","P","F","/","D","K","I","M","/","D","M","A","R","C",")">>, result.reasons) = 0

\* a header with both markers got the weight once
C7_Witness ==
    LET t == lower(data) IN
    /\ pc = "done"
    /\ HeaderMode(t)
    /\ contains(<<"s","p","f","=","f","a","i","l">>, t) /\ contains(<<"d","k","i","m","=","f","a","i","l">>, t)
    /\ result.score = 40 + RoutingPoints(t)

\* C8 as stated: a text containing "http://", "bit.ly" or "tinyurl" gets the
\* link weight once and one link reason.
C8_Original ==
    LET t == lower(data) IN
    (pc = "done" /\ HasLinkMarker(t)) =>
        /\ result.score = 20 + KeywordPoints(t) + AuthPoints(t) + RoutingPoints(t)
        /\ Count(<<"U","n","s","e","c","u","r","e","d"," ","l","i","n","k"," ","d","e","t","e","c","t","e","d">>, result.reasons) = 1

\* C8 amended: a text containing "http://" gets the link weight once and one
\* link reason, however often it occurs; a text without "http://" gets
\* neither, also when it contains "bit.ly" or "tinyurl".
C8_HttpLinkOnce ==
    LET t == lower(data) IN
    pc = "done" =>
        IF HasHttp(t)
        THEN /\ result.score = 20 + KeywordPoints(t) + AuthPoints(t) + RoutingPoints(t)
             /\ Count(<<"U","n","s","e","c","u","r","e","d"," ","l","i","n","k"," ","d","e","t","e","c","t","e","d">>, result.reasons) = 1
        ELSE /\ result.score = KeywordPoints(t) + AuthPoints(t) + RoutingPoints(t)
             /\ Count(<<"U","n","s","e","c","u","r","e","d"," ","l","i","n","k"," ","d","e","t","e","c","t","e","d">>, result.reasons) = 0

\* a text with two "http://" links got the weight once
C8_Witness ==
    LET t == lower(data) IN
    /\ pc = "done"
    /\ Cardinality(occurrences(<<"h","t","t","p",":","/","/">>, t)) = 2
    /\ Count(<<"U","n","s","e","c","u","r","e","d"," ","l","i","n","k"," ","d","e","t","e","c","t","e","d">>, result.reasons) = 1

\* C9 as stated: exactly the texts without "received:" and "subject:" are
\* analysed as plain text (recognisable by the stub reputation note); their
\* four fields are the sentinel "N/A", their reputation is Unknown and their
\* score comes from the content scorer alone.
C9_Original ==
    LET t == lower(data) IN
    pc = "done" =>
        /\ ~HeaderMode(t) <=> result.domain_note = <<"D","e","t","e","c","t","e","d"," ","f","r","o","m"," ","s","c","r","e","e","n","s","h","o","t"," ","m","e","s","s","a","g","e">>
        /\ ~HeaderMode(t) =>
              /\ result.subject = <<"N","/","A">> /\ result.from = <<"N","/","A">>
              /\ result.to = <<"N","/","A">> /\ result.date = <<"N","/","A">>
              /\ result.domain_reputation = <<"U","n","k","n","o","w","n">>
              /\ result.score = KeywordPoints(t) + HttpPoints(t)

\* C9 amended: as stated, except that the four fields of a plain text are
\* the fixed placeholders "Screenshot Text", "Unknown", "User" and "N/A".
C9_ModeDetection ==
    LET t == lower(data) IN
    pc = "done" =>
        /\ ~HeaderMode(t) <=> result.domain_note = <<"D","e","t","e","c","t","e","d"," ","f","r","o","m"," ","s","c","r","e","e","n","s","h","o","t"," ","m","e","s","s","a","g","e">>
        /\ ~HeaderMode(t) =>
              /\ result.subject = <<"S","c","r","e","e","n","s","h","o","t"," ","T","e","x","t">> /\ result.from = <<"U","n","k","n","o","w","n">>
              /\ result.to = <<"U","s","e","r">> /\ result.date = <<"N","/","A">>
              /\ result.domain_reputation = <<"U","n","k","n","o","w","n">>
              /\ result.score = KeywordPoints(t) + HttpPoints(t)

\* a plain text with an authentication marker and a From line was analysed
C9_Witness ==
    LET t == lower(data) IN
    /\ pc = "done"
    /\ ~HeaderMode(t)
    /\ HasAuthMarker(t)
    /\ contains(<<"f","r","o","m",":">>, t)
    /\ result.domain_note = <<"D","e","t","e","c","t","e","d"," ","f","r","o","m"," ","s","c","r","e","e","n","s","h","o","t"," ","m","e","s","s","a","g","e">>

TriggerPhrases ==
    Range(words) \cup {<<"s","p","f","=","f","a","i","l">>, <<"d","k","i","m","=","f","a","i","l">>, <<"d","m","a","r","c","=","f","a","i","l">>, <<"h","t","t","p",":","/","/">>, <<"b","i","t",".","l","y">>, <<"t","i","n","y","u","r","l">>}

\* C10: when a text scores 0, the text with any trigger phrase put before or
\* after it scores no less.
C10_Monotone ==
    (pc = "done" /\ result.score = 0) =>
        \A p \in TriggerPhrases :
            /\ analyze_email(data \o p).score >= result.score
            /\ analyze_email(p \o data).score >= result.score

\* a clean header whose score rises with a keyword and with a marker
C10_Witness ==
    LET t == lower(data) IN
    /\ pc = "done"
    /\ result.score = 0
    /\ HasReceived(t)
    /\ analyze_email(data \o <<"w","i","n","n","e","r">>).score = 10
    /\ analyze_email(<<"d","k","i","m","=","f","a","i","l">> \o data).score = 40

====
